---- MODULE Spec2Model ----
(***************************************************************************)
(* Smartdoc backend: the EHR subsystem (configuration store, connection    *)
(* test history, submission ledger, submit-prescription pipeline) and the  *)
(* prescription endpoints it depends on.                                   *)
(*                                                                         *)
(* The document store is modelled as one sequence per collection, in       *)
(* insertion order; find_one returns the first match in that order.        *)
(* Every handler is split at its awaits: one action per database or HTTP   *)
(* round trip, the synchronous code after it included.                     *)
(* datetime.now() is a counter that advances whenever a document takes its *)
(* creation time from it (so the sort keys created_at and submitted_at are *)
(* strictly ordered); uuid4() is a counter of fresh values.                *)
(***************************************************************************)
EXTENDS Integers, Sequences, FiniteSets, TLC

VARIABLES
    now,               \* the clock read by datetime.now(timezone.utc)
    next_id,           \* the next value uuid.uuid4() / ObjectId() hands out
    prescriptions,     \* collection "prescriptions"
    ehr_configs,       \* collection "ehr_configurations"
    ehr_submissions,   \* collection "ehr_submissions"
    ehr_tests,         \* collection "ehr_connection_tests"
    tests_saved,       \* history: created_at of every test saved, per doctor and provider
    saving,            \* configure_ehr calls suspended between find_one and the write
    submitting,        \* submit_prescription_to_ehr calls, one per slot, "idle" when free
    updating,          \* update_ehr_submission_status("retry") calls between $inc and $set
    last,              \* the response of the handler that completed last
    patient_storage,   \* PatientStorageDB: the patients and the visits collections
    ehr_service        \* the EHRIntegrationService objects and the HTTP sessions they opened

vars == <<now, next_id, prescriptions, ehr_configs, ehr_submissions, ehr_tests,
          tests_saved, saving, submitting, updating, last, patient_storage, ehr_service>>

(***************************************************************************)
(* Bounds of the model.                                                    *)
(***************************************************************************)
MaxConfigSaves == 2
MaxInflight == 2
MaxPrescriptions == 2
MaxSubmissions == 2
MaxTestSaves == 12
MaxRetryCount == 2
MaxLedgerRows == 1
MaxPatients == 1
MaxClients == 3

(***************************************************************************)
(* Values.                                                                 *)
(***************************************************************************)
Doctors == {"A", "B"}
Providers == {"Epic", "Cerner"}
BaseUrls == {"https://fhir.one/", "https://fhir.two/"}

\* Python's None in a text field, and in a datetime field.
Null == "None"
NoTime == 0

\* Python truthiness of a text or dict value: None, "" and {} are falsy.
Truthy(v) == v \notin {Null, "", "{}"}

RECURSIVE SeqFilter(_, _)
\* The documents of collection `coll` that are in the set `keep`, in order.
SeqFilter(coll, keep) ==
    IF coll = <<>> THEN <<>>
    ELSE IF Head(coll) \in keep
         THEN <<Head(coll)>> \o SeqFilter(Tail(coll), keep)
         ELSE SeqFilter(Tail(coll), keep)

Range(s) == {s[i] : i \in 1..Len(s)}

\* Index of the first document of `coll` that is in `match`, 0 when none is.
FirstIndex(coll, match) ==
    IF \E i \in 1..Len(coll) : coll[i] \in match
    THEN CHOOSE i \in 1..Len(coll) :
            /\ coll[i] \in match
            /\ \A j \in 1..(i - 1) : coll[j] \notin match
    ELSE 0

\* Motor's find_one: <<>> for None, else <<document>>.
find_one(coll, match) ==
    IF FirstIndex(coll, match) = 0 THEN <<>> ELSE <<coll[FirstIndex(coll, match)]>>

RECURSIVE SortDesc(_, _)
\* cursor.sort(key, -1) over the set of documents `docs`; key is a field name.
SortDesc(docs, key) ==
    IF docs = {} THEN <<>>
    ELSE LET top == CHOOSE d \in docs : \A e \in docs : e[key] <= d[key]
         IN  <<top>> \o SortDesc(docs \ {top}, key)

\* cursor.skip(n)
Skip(s, n) == IF n >= Len(s) THEN <<>> ELSE SubSeq(s, n + 1, Len(s))

\* cursor.limit(n); limit(0) is no limit.
Limit(s, n) == IF n = 0 \/ n >= Len(s) THEN s ELSE SubSeq(s, 1, n)

\* What the remote EHR endpoint does with a request.
Http(status, content_type, body) ==
    [kind |-> "http", status |-> status, content_type |-> content_type, body |-> body]

Refused ==
    [kind |-> "refused", status |-> 0, content_type |-> "",
     body |-> "Cannot connect to host"]

\* asyncio.TimeoutError carries no text: str(e) is "".
TimedOut == [kind |-> "timeout", status |-> 0, content_type |-> "", body |-> ""]

RemoteOutcomes ==
    {Http(200, "application/json", "{json}"),
     Http(201, "application/json", "{}"),
     Http(200, "application/json", "<html>"),
     Http(500, "text/plain", "Internal Server Error"),
     Refused, TimedOut}

\* Bodies a metadata probe can be answered with: a capability statement
\* listing Patient twice, and one whose resource entry has no "type".
CapabilityStatement ==
    "{fhirVersion: 4.0.1, rest: [{resource: [{type: Patient}, {type: Encounter}, {type: Patient}]}]}"

UntypedResource == "{rest: [{resource: [{}]}]}"

\* Whether response.json() parses the body.
ParsesAsJson(body) ==
    body \in {"{}", "{json}", "[]", "5", CapabilityStatement, UntypedResource}

\* The value response.json() returns for a body it parses: its JSON type,
\* and for an object the resource types listed under "rest" (Null for a
\* resource without "type") and "fhirVersion" (Null when absent).
JsonOf(body) ==
    CASE body = "[]" ->
            [type |-> "array", has_rest |-> FALSE, rest |-> <<>>, fhirVersion |-> Null]
      [] body = "5" ->
            [type |-> "number", has_rest |-> FALSE, rest |-> <<>>, fhirVersion |-> Null]
      [] body = CapabilityStatement ->
            [type |-> "object", has_rest |-> TRUE,
             rest |-> << <<"Patient", "Encounter", "Patient">> >>,
             fhirVersion |-> "4.0.1"]
      [] body = UntypedResource ->
            [type |-> "object", has_rest |-> TRUE, rest |-> << <<Null>> >>,
             fhirVersion |-> Null]
      [] OTHER ->
            [type |-> "object", has_rest |-> FALSE, rest |-> <<>>, fhirVersion |-> Null]

NoResponse ==
    [op |-> "none", caller |-> "none", arg |-> 0, code |-> 0, detail |-> "", body |-> <<>>]

Response(op, caller, arg, code, detail, body) ==
    [op |-> op, caller |-> caller, arg |-> arg, code |-> code, detail |-> detail,
     body |-> body]

(***************************************************************************)
(* Configuration store: EHRDatabase.save_ehr_configuration and the         *)
(* configure endpoint, get_ehr_configuration_by_provider, get_ehr_         *)
(* configurations, delete_ehr_configuration.                               *)
(***************************************************************************)
ConfigsOf(d, p) == {c \in Range(ehr_configs) : c.doctor_id = d /\ c.provider = p}

ActiveConfigsOf(d, p) == {c \in ConfigsOf(d, p) : c.is_active}

\* find_one({"doctor_id", "provider", "is_active": True})
get_ehr_configuration_by_provider(d, p) == find_one(ehr_configs, ActiveConfigsOf(d, p))

\* find({"doctor_id", "is_active": True}).sort("created_at", -1)
get_ehr_configurations(d) ==
    SortDesc({c \in Range(ehr_configs) : c.doctor_id = d /\ c.is_active}, "created_at")

\* config_data as built before the lookup (ehr_database.py 56-63).
NewConfigData(d, p, url) ==
    [id |-> next_id, doctor_id |-> d, provider |-> p, base_url |-> url,
     created_at |-> now, updated_at |-> now, is_active |-> TRUE]

\* ReplacementData with the row's created_at overwritten by the new one.
ReplacementData_NewCreatedAt(config_data, existing) ==
    [config_data EXCEPT !.id = existing.id]

\* config_data as it is written when a row exists: the row's id and created_at.
ReplacementData(config_data, existing) ==
    [config_data EXCEPT !.id = existing.id, !.created_at = existing.created_at]

\* replace_one({"id": id}, data): the first document with that id is replaced.
replace_one(coll, id, data) ==
    LET i == FirstIndex(coll, {c \in Range(coll) : c.id = id})
    IN  IF i = 0 THEN coll ELSE [coll EXCEPT ![i] = data]

\* configure_ehr up to the await of find_one: config_data is built, the lookup runs.
save_ehr_configuration_find(d, p, url) ==
    /\ next_id <= MaxConfigSaves
    /\ Cardinality(saving) < MaxInflight
    /\ saving' = saving \cup
          {[config_data |-> NewConfigData(d, p, url),
            existing_config |-> find_one(ehr_configs, ConfigsOf(d, p))]}
    /\ now' = now + 1
    /\ next_id' = next_id + 1
    /\ UNCHANGED <<prescriptions, ehr_configs, ehr_submissions, ehr_tests, tests_saved,
                   submitting, updating, last, patient_storage, ehr_service>>

\* The rest of configure_ehr: replace_one or insert_one, then the 200 response.
save_ehr_configuration_write(s) ==
    /\ s \in saving
    /\ saving' = saving \ {s}
    /\ LET data == IF s.existing_config = <<>> THEN s.config_data
                   ELSE ReplacementData(s.config_data, s.existing_config[1])
       IN  /\ ehr_configs' =
                 IF s.existing_config = <<>> THEN Append(ehr_configs, data)
                 ELSE replace_one(ehr_configs, s.existing_config[1].id, data)
           /\ last' = Response("configure", data.doctor_id, data.id, 200,
                               "EHR configuration saved successfully", <<>>)
    /\ UNCHANGED <<now, next_id, prescriptions, ehr_submissions, ehr_tests, tests_saved,
                   submitting, updating, patient_storage, ehr_service>>

\* update_one({"id", "doctor_id"}, {"$set": {"is_active": False, "updated_at": now}})
SoftDeleted(c) == [c EXCEPT !.is_active = FALSE, !.updated_at = now]

\* result.modified_count > 0: a document matched and the update changed it.
Modified(coll, i, data) == i # 0 /\ data # coll[i]

\* DELETE /api/ehr/configurations/{config_id}: 404 when nothing was modified.
delete_ehr_configuration(d, config_id) ==
    LET i == FirstIndex(ehr_configs,
                        {c \in Range(ehr_configs) : c.id = config_id /\ c.doctor_id = d})
    IN  /\ IF i = 0 \/ ~Modified(ehr_configs, i, SoftDeleted(ehr_configs[i]))
           THEN /\ ehr_configs' = ehr_configs
                /\ last' = Response("delete_config", d, config_id, 404,
                                    "Configuration not found", <<>>)
           ELSE /\ ehr_configs' = [ehr_configs EXCEPT ![i] = SoftDeleted(ehr_configs[i])]
                /\ last' = Response("delete_config", d, config_id, 200,
                                    "EHR configuration deleted successfully", <<>>)
        /\ UNCHANGED <<now, next_id, prescriptions, ehr_submissions, ehr_tests,
                       tests_saved, saving, submitting, updating, patient_storage,
                   ehr_service>>

(***************************************************************************)
(* Connection tests: EHRIntegrationService.test_ehr_connection, the        *)
(* test-connection endpoint and EHRDatabase.save_ehr_connection_test.      *)
(***************************************************************************)
KeepTests == 10

\* EHRConnectionTest(...): message is kept as the parts of the f-string,
\* capabilities as a set ({} for None).
EHRConnectionTest(p, status, message, timed, capabilities, fhir_version) ==
    [provider |-> p, status |-> status, message |-> message,
     has_response_time |-> timed, capabilities |-> capabilities,
     fhir_version |-> fhir_version]

\* The except branches (ehr_service.py 490-503).
TimeoutTest(p) ==
    EHRConnectionTest(p, "error", <<"Connection timeout after ", "30", " seconds">>,
                      FALSE, {}, Null)

ExceptionTest(p, text) ==
    EHRConnectionTest(p, "error", <<"Connection error: ", text>>, FALSE, {}, Null)

\* The text of the exception reading `data` raises, "" when it raises none:
\* `"rest" in data` on a number, r["type"] on a resource without "type".
ProbeReadError(data) ==
    IF data.type = "number" THEN "argument of type 'int' is not iterable"
    ELSE IF \E i \in 1..Len(data.rest) : \E j \in 1..Len(data.rest[i]) :
                data.rest[i][j] = Null
    THEN "'type'"
    ELSE ""

\* set(capabilities) over rest[].resource[].type
CapabilitiesOf(data) ==
    UNION {{data.rest[i][j] : j \in 1..Len(data.rest[i])} : i \in 1..Len(data.rest)}

\* The content types response.json() decodes: application/json and the
\* +json types.
JsonContentTypes == {"application/json", "application/fhir+json"}

\* The HTTP 200 branch reporting no FHIR version.
ProbeOk_NoFhirVersion(p, remote) ==
    IF remote.content_type \notin JsonContentTypes
    THEN ExceptionTest(p, "Attempt to decode JSON with unexpected mimetype")
    ELSE IF ~ParsesAsJson(remote.body)
    THEN ExceptionTest(p, "Expecting value: line 1 column 1 (char 0)")
    ELSE IF ProbeReadError(JsonOf(remote.body)) # ""
    THEN ExceptionTest(p, ProbeReadError(JsonOf(remote.body)))
    ELSE EHRConnectionTest(p, "connected", <<"Connection successful">>, TRUE,
                           CapabilitiesOf(JsonOf(remote.body)), Null)

\* The branch for HTTP 200 (ehr_service.py 459-478).
ProbeOk(p, remote) ==
    IF remote.content_type \notin JsonContentTypes
    THEN ExceptionTest(p, "Attempt to decode JSON with unexpected mimetype")
    ELSE IF ~ParsesAsJson(remote.body)
    THEN ExceptionTest(p, "Expecting value: line 1 column 1 (char 0)")
    ELSE IF ProbeReadError(JsonOf(remote.body)) # ""
    THEN ExceptionTest(p, ProbeReadError(JsonOf(remote.body)))
    ELSE EHRConnectionTest(p, "connected", <<"Connection successful">>, TRUE,
                           CapabilitiesOf(JsonOf(remote.body)),
                           JsonOf(remote.body).fhirVersion)

\* EHRIntegrationService.test_ehr_connection: the EHRConnectionTest it returns.
EHRIntegrationService_test_ehr_connection(p, remote) ==
    IF remote.kind = "timeout" THEN TimeoutTest(p)
    ELSE IF remote.kind = "refused" THEN ExceptionTest(p, remote.body)
    ELSE IF remote.status = 200 THEN ProbeOk(p, remote)
    ELSE EHRConnectionTest(p, "error",
                           <<"HTTP ", ToString(remote.status), ": ", remote.body>>,
                           TRUE, {}, Null)

TestsOf(coll, d, p) == {t \in Range(coll) : t.doctor_id = d /\ t.provider = p}

\* find({"doctor_id", "provider"}).sort("created_at", -1).skip(10)
OldTests(d, p) == Skip(SortDesc(TestsOf(ehr_tests, d, p), "created_at"), KeepTests)

\* save_ehr_connection_test: the old tests are deleted, then the new one inserted.
SavedTests(d, test_result) ==
    Append(SeqFilter(ehr_tests, Range(ehr_tests) \ Range(OldTests(d, test_result.provider))),
           [id |-> next_id, doctor_id |-> d, provider |-> test_result.provider,
            status |-> test_result.status, created_at |-> now])

RECURSIVE SumLen(_, _)
SumLen(f, keys) ==
    IF keys = {} THEN 0
    ELSE LET k == CHOOSE k \in keys : TRUE
         IN  Len(f[k[1]][k[2]]) + SumLen(f, keys \ {k})

TotalTestsSaved == SumLen(tests_saved, Doctors \X Providers)

\* POST /api/ehr/test-connection: the probe, then the save, then the 200 response.
test_ehr_connection(d, p, remote) ==
    LET test_result == EHRIntegrationService_test_ehr_connection(p, remote)
    IN  /\ TotalTestsSaved < MaxTestSaves
        /\ ehr_tests' = SavedTests(d, test_result)
        /\ tests_saved' = [tests_saved EXCEPT ![d][p] = Append(@, now)]
        /\ now' = now + 1
        /\ next_id' = next_id + 1
        /\ last' = Response("test_connection", d, 0, 200, test_result.message,
                             <<test_result>>)
        /\ UNCHANGED <<prescriptions, ehr_configs, ehr_submissions, saving, submitting,
                       updating, patient_storage, ehr_service>>

(***************************************************************************)
(* Submission ledger: EHRDatabase.save_ehr_submission and                  *)
(* update_ehr_submission_status.                                           *)
(***************************************************************************)
Statuses == {"pending", "success", "failed", "retry"}

\* A row inserted as already completed.
NewSubmission_Completed(d, prescription_id, p) ==
    [id |-> next_id, doctor_id |-> d, prescription_id |-> prescription_id,
     ehr_provider |-> p, submission_data |-> "{}", patient_fhir_id |-> Null,
     encounter_fhir_id |-> Null, status |-> "pending", retry_count |-> 0,
     submitted_at |-> now, completed_at |-> now, updated_at |-> NoTime,
     ehr_response |-> Null, error_message |-> Null]

\* A row keyed by the prescription it is for.
NewSubmission_KeyedByPrescription(d, prescription_id, p) ==
    [id |-> prescription_id, doctor_id |-> d, prescription_id |-> prescription_id,
     ehr_provider |-> p, submission_data |-> "{}", patient_fhir_id |-> Null,
     encounter_fhir_id |-> Null, status |-> "pending", retry_count |-> 0,
     submitted_at |-> now, completed_at |-> NoTime, updated_at |-> NoTime,
     ehr_response |-> Null, error_message |-> Null]

\* The document save_ehr_submission inserts for EHRSubmission(prescription_id,
\* ehr_provider, submission_data={}).
NewSubmission(d, prescription_id, p) ==
    [id |-> next_id, doctor_id |-> d, prescription_id |-> prescription_id,
     ehr_provider |-> p, submission_data |-> "{}", patient_fhir_id |-> Null,
     encounter_fhir_id |-> Null, status |-> "pending", retry_count |-> 0,
     submitted_at |-> now, completed_at |-> NoTime, updated_at |-> NoTime,
     ehr_response |-> Null, error_message |-> Null]

\* update_data that stamps completed_at for every status.
SetUpdateData_AlwaysCompletes(row, status, ehr_response, error_message) ==
    [row EXCEPT
        !.status = status,
        !.updated_at = now,
        !.completed_at = now,
        !.ehr_response = IF Truthy(ehr_response) THEN ehr_response ELSE @,
        !.error_message = IF Truthy(error_message) THEN error_message ELSE @]

\* update_data that leaves completed_at out for every status.
SetUpdateData_NeverCompletes(row, status, ehr_response, error_message) ==
    [row EXCEPT
        !.status = status,
        !.updated_at = now,
        !.ehr_response = IF Truthy(ehr_response) THEN ehr_response ELSE @,
        !.error_message = IF Truthy(error_message) THEN error_message ELSE @]

\* update_data of update_ehr_submission_status applied to a row by $set.
SetUpdateData(row, status, ehr_response, error_message) ==
    [row EXCEPT
        !.status = status,
        !.updated_at = now,
        !.completed_at = IF status \in {"success", "failed"} THEN now ELSE @,
        !.ehr_response = IF Truthy(ehr_response) THEN ehr_response ELSE @,
        !.error_message = IF Truthy(error_message) THEN error_message ELSE @]

\* {"$inc": {"retry_count": 1}}
IncRetryCount(row) == [row EXCEPT !.retry_count = @ + 1]

\* update_one({"id": id}, ...): `change` applied to the first row with that id.
SubmissionIndex(id) ==
    FirstIndex(ehr_submissions, {r \in Range(ehr_submissions) : r.id = id})

\* EHRDatabase.save_ehr_submission called on the ledger.
save_ehr_submission(d, prescription_id, p) ==
    /\ Len(ehr_submissions) < MaxLedgerRows
    /\ ehr_submissions' = Append(ehr_submissions, NewSubmission(d, prescription_id, p))
    /\ now' = now + 1
    /\ next_id' = next_id + 1
    /\ UNCHANGED <<prescriptions, ehr_configs, ehr_tests, tests_saved, saving,
                   submitting, updating, last, patient_storage, ehr_service>>

\* update_ehr_submission_status with a status other than "retry": one $set.
update_ehr_submission_status(id, status, ehr_response, error_message) ==
    LET i == SubmissionIndex(id)
    IN  /\ status # "retry"
        /\ ehr_submissions' =
              IF i = 0 THEN ehr_submissions
              ELSE [ehr_submissions EXCEPT
                      ![i] = SetUpdateData(@, status, ehr_response, error_message)]
        /\ UNCHANGED <<now, next_id, prescriptions, ehr_configs, ehr_tests, tests_saved,
                       saving, submitting, updating, last, patient_storage,
                   ehr_service>>

\* update_ehr_submission_status("retry") up to the await of the $inc.
update_ehr_submission_status_inc(id, ehr_response, error_message) ==
    LET i == SubmissionIndex(id)
        call == [submission_id |-> id, ehr_response |-> ehr_response,
                 error_message |-> error_message]
    IN  /\ call \notin updating
        /\ Cardinality(updating) < MaxInflight
        /\ i # 0 => ehr_submissions[i].retry_count < MaxRetryCount
        /\ ehr_submissions' =
              IF i = 0 THEN ehr_submissions
              ELSE [ehr_submissions EXCEPT ![i] = IncRetryCount(@)]
        /\ updating' = updating \cup {call}
        /\ UNCHANGED <<now, next_id, prescriptions, ehr_configs, ehr_tests, tests_saved,
                       saving, submitting, last, patient_storage, ehr_service>>

\* update_ehr_submission_status("retry") from the $inc on: the $set.
update_ehr_submission_status_set(call) ==
    LET i == SubmissionIndex(call.submission_id)
    IN  /\ call \in updating
        /\ updating' = updating \ {call}
        /\ ehr_submissions' =
              IF i = 0 THEN ehr_submissions
              ELSE [ehr_submissions EXCEPT
                      ![i] = SetUpdateData(@, "retry", call.ehr_response,
                                           call.error_message)]
        /\ UNCHANGED <<now, next_id, prescriptions, ehr_configs, ehr_tests, tests_saved,
                       saving, submitting, last, patient_storage, ehr_service>>

(***************************************************************************)
(* Prescriptions: create_prescription, get_prescription.                   *)
(***************************************************************************)
\* prescription_db.get_prescription_by_id: <<>> for None.
get_prescription_by_id(id) ==
    find_one(prescriptions, {x \in Range(prescriptions) : x.id = id})

\* The body of a prescription: the vitals of PatientInfo the builders read,
\* and the medications.
Prescription(age, blood_pressure, heart_rate, temperature, medications) ==
    [patient_info |-> [age |-> age, blood_pressure |-> blood_pressure,
                       heart_rate |-> heart_rate, temperature |-> temperature],
     medications |-> medications]

Medication(name, frequency) == [name |-> name, frequency |-> frequency]

ValidPrescription ==
    Prescription("45", "120/80", "72", "98.6", <<Medication("Amoxicillin", "twice daily")>>)

\* POST /api/prescriptions: doctor_id is the caller's.
create_prescription(d, prescription) ==
    /\ Len(prescriptions) < MaxPrescriptions
    /\ prescriptions' = Append(prescriptions,
                               [id |-> next_id, doctor_id |-> d, created_at |-> now,
                                updated_at |-> now,
                                patient_info |-> prescription.patient_info,
                                medications |-> prescription.medications])
    /\ now' = now + 1
    /\ next_id' = next_id + 1
    /\ last' = Response("create_prescription", d, next_id, 200,
                         "Prescription created successfully", <<>>)
    /\ UNCHANGED <<ehr_configs, ehr_submissions, ehr_tests, tests_saved, saving,
                   submitting, updating, patient_storage, ehr_service>>

\* get_prescription without the ownership check.
get_prescription_NoOwnerCheck(d, id) ==
    LET prescription == get_prescription_by_id(id)
    IN  IF prescription = <<>>
        THEN Response("get_prescription", d, id, 404, "Prescription not found", <<>>)
        ELSE Response("get_prescription", d, id, 200, "", prescription)

\* GET /api/prescriptions/{prescription_id}: the response.
get_prescription(d, id) ==
    LET prescription == get_prescription_by_id(id)
    IN  IF prescription = <<>>
        THEN Response("get_prescription", d, id, 404, "Prescription not found", <<>>)
        ELSE IF prescription[1].doctor_id # d
        THEN Response("get_prescription", d, id, 403, "Access denied", <<>>)
        ELSE Response("get_prescription", d, id, 200, "", prescription)

(***************************************************************************)
(* Reading the ledger: get_ehr_submissions, get_ehr_submission_details.    *)
(***************************************************************************)
\* filter_query without doctor_id.
SubmissionFilter_AnyDoctor(d, status) ==
    {r \in Range(ehr_submissions) : Truthy(status) => r.status = status}

\* filter_query: doctor_id, and status when the argument is truthy.
SubmissionFilter(d, status) ==
    {r \in Range(ehr_submissions) :
        r.doctor_id = d /\ (Truthy(status) => r.status = status)}

\* EHRDatabase.get_ehr_submissions and the endpoint over it: the submissions listed.
get_ehr_submissions(d, skip, limit, status) ==
    Limit(Skip(SortDesc(SubmissionFilter(d, status), "submitted_at"), skip), limit)

\* find_one({"id": submission_id})
get_ehr_submission_by_id(id) ==
    find_one(ehr_submissions, {r \in Range(ehr_submissions) : r.id = id})

\* GET /api/ehr/submissions/{submission_id}: the response.
get_ehr_submission_details(d, id) ==
    LET submission == get_ehr_submission_by_id(id)
    IN  IF submission = <<>>
        THEN Response("submission_details", d, id, 404, "Submission not found", <<>>)
        ELSE IF submission[1].doctor_id # d
        THEN Response("submission_details", d, id, 403, "Access denied", <<>>)
        ELSE Response("submission_details", d, id, 200,
                      "Submission details retrieved successfully", submission)

(***************************************************************************)
(* EHRIntegrationService.submit_prescription_to_ehr: the resource builder  *)
(* pipeline, the POST, and the result dict.                                *)
(***************************************************************************)
\* The fields a pydantic model declares without a default (models.py 244-304).
RequiredFields(model) ==
    CASE model = "FHIRPatient" -> {}
      [] model = "FHIRPractitioner" -> {}
      [] model = "FHIRMedicationRequest" ->
            {"medicationCodeableConcept", "subject", "requester"}
      [] model = "FHIREncounter" -> {"class", "subject", "period"}
      [] model = "FHIRObservation" -> {"code", "subject"}
      [] model = "FHIRBundle" -> {}

\* str() of the ValidationError pydantic raises when required fields are missing.
ValidationErrorText(model) ==
    CASE model = "FHIREncounter" -> "3 validation errors for FHIREncounter"
      [] model = "FHIRMedicationRequest" -> "3 validation errors for FHIRMedicationRequest"
      [] model = "FHIRObservation" -> "2 validation errors for FHIRObservation"
      [] OTHER -> "validation error"

\* The constructor calls submit reaches first, in order, each with no arguments:
\* FHIRPatient() in create_patient_resource, FHIRPractitioner() in
\* create_practitioner_resource, FHIREncounter() in create_encounter_resource.
BuilderConstructors == <<"FHIRPatient", "FHIRPractitioner", "FHIREncounter">>

\* Model() with keyword arguments `given`: whether pydantic raises.
ConstructorRaises(model, given) == RequiredFields(model) \ given # {}

\* The first constructor of the pipeline that raises, "" when none does.
BuilderFailure ==
    LET failing == {k \in 1..Len(BuilderConstructors) :
                       ConstructorRaises(BuilderConstructors[k], {})}
    IN  IF failing = {} THEN ""
        ELSE BuilderConstructors[CHOOSE k \in failing : \A j \in failing : k <= j]

\* The attributes a PatientInfo has (models.py 118-128).
PatientInfoFields ==
    {"name", "age", "gender", "height", "weight", "blood_pressure", "temperature",
     "heart_rate", "respiratory_rate", "oxygen_saturation"}

\* hasattr(patient_info, attr)
hasattr(attr) == attr \in PatientInfoFields

\* The texts int() and float() accept.
ParsesAsInt(text) == text \in {"45", "72", "120", "80"}

ParsesAsFloat(text) == ParsesAsInt(text) \/ text \in {"98.6", "37.0"}

\* text.split('/')
SplitSlash(text) ==
    CASE text = "120/80" -> <<"120", "80">>
      [] text = "120/x" -> <<"120", "x">>
      [] text = "120/80/70" -> <<"120", "80", "70">>
      [] OTHER -> <<text>>

\* A resource of the bundle: its type, its LOINC code (observations), and
\* the values it carries.
Resource(resourceType, code, values) ==
    [resourceType |-> resourceType, code |-> code, values |-> values]

\* The blood-pressure block (ehr_service.py 261-322): entered for an attribute
\* named bp; a ValueError (pydantic's ValidationError is one) or
\* AttributeError inside it is swallowed.
BloodPressureObservations(patient_info) ==
    IF hasattr("bp") /\ Truthy(patient_info.bp)
    THEN IF Len(SplitSlash(patient_info.bp)) # 2 THEN <<>>
         ELSE IF ConstructorRaises("FHIRObservation", {}) THEN <<>>
         ELSE IF \E k \in 1..2 : ~ParsesAsInt(SplitSlash(patient_info.bp)[k]) THEN <<>>
         ELSE <<Resource("Observation", "85354-9", SplitSlash(patient_info.bp))>>
    ELSE <<>>

\* The heart-rate block (ehr_service.py 324-355).
HeartRateObservations(patient_info) ==
    IF hasattr("heart_rate") /\ Truthy(patient_info.heart_rate)
    THEN IF ConstructorRaises("FHIRObservation", {}) THEN <<>>
         ELSE IF ~ParsesAsInt(patient_info.heart_rate) THEN <<>>
         ELSE <<Resource("Observation", "8867-4", <<patient_info.heart_rate>>)>>
    ELSE <<>>

\* The temperature block (ehr_service.py 357-389).
TemperatureObservations(patient_info) ==
    IF hasattr("temperature") /\ Truthy(patient_info.temperature)
    THEN IF ~ParsesAsFloat(patient_info.temperature) THEN <<>>
         ELSE IF ConstructorRaises("FHIRObservation", {}) THEN <<>>
         ELSE <<Resource("Observation", "8310-5", <<patient_info.temperature>>)>>
    ELSE <<>>

\* FHIRService.create_vital_signs_observations
create_vital_signs_observations(patient_info) ==
    BloodPressureObservations(patient_info)
        \o HeartRateObservations(patient_info)
        \o TemperatureObservations(patient_info)

\* FHIRService.create_patient_resource: birthDate only for an age int() accepts.
create_patient_resource(patient_info) ==
    Resource("Patient", "",
             IF Truthy(patient_info.age) /\ ParsesAsInt(patient_info.age)
             THEN <<"birthDate">> ELSE <<>>)

\* What the builder pipeline of submit gives: the exception it raises, or
\* the resources of the bundle in order.
Raised(text) == [raised |-> TRUE, error |-> text, entry |-> <<>>]

Built(resources) == [raised |-> FALSE, error |-> "", entry |-> resources]

\* str.lower() on the letters of the frequency texts.
UpperCase == "ABCDEFGHIJKLMNOPQRSTUVWXYZ"

LowerCase == "abcdefghijklmnopqrstuvwxyz"

LowerChar(c) ==
    IF \E i \in 1..Len(UpperCase) : SubSeq(UpperCase, i, i) = c
    THEN LET i == CHOOSE i \in 1..Len(UpperCase) : SubSeq(UpperCase, i, i) = c
         IN  SubSeq(LowerCase, i, i)
    ELSE c

RECURSIVE Lower(_)
Lower(text) ==
    IF Len(text) = 0 THEN ""
    ELSE LowerChar(SubSeq(text, 1, 1)) \o Lower(SubSeq(text, 2, Len(text)))

\* sub in text
Contains(text, sub) ==
    \E i \in 1..(Len(text) - Len(sub) + 1) : SubSeq(text, i, i + Len(sub) - 1) = sub

\* dosage["timing"]["repeat"]["frequency"] (ehr_service.py 158, 166-174).
TimingFrequency(frequency) ==
    IF ~Truthy(frequency) THEN 1
    ELSE LET freq_lower == Lower(frequency)
         IN  IF Contains(freq_lower, "twice") \/ Contains(freq_lower, "bid") THEN 2
             ELSE IF Contains(freq_lower, "three") \/ Contains(freq_lower, "tid") THEN 3
             ELSE IF Contains(freq_lower, "four") \/ Contains(freq_lower, "qid") THEN 4
             ELSE 1

\* FHIRService.create_medication_request_resource for a medication whose
\* dosage and duration are given: the constructor call of line 140, then the
\* dosage instruction with its timing.
create_medication_request_resource(medication) ==
    IF ConstructorRaises("FHIRMedicationRequest", {})
    THEN Raised(ValidationErrorText("FHIRMedicationRequest"))
    ELSE Built(<<[resourceType |-> "MedicationRequest", code |-> "",
                  values |-> <<medication.name>>,
                  frequency |-> TimingFrequency(medication.frequency)]>>)

\* The pipeline (ehr_service.py 516-566): patient, practitioner, encounter,
\* one medication request per medication, the vitals, the bundle.
BuildBundle(prescription) ==
    IF BuilderFailure # "" THEN Raised(ValidationErrorText(BuilderFailure))
    ELSE IF prescription.medications # <<>>
            /\ ConstructorRaises("FHIRMedicationRequest", {})
    THEN Raised(ValidationErrorText("FHIRMedicationRequest"))
    ELSE Built(<<create_patient_resource(prescription.patient_info),
                 Resource("Practitioner", "", <<>>),
                 Resource("Encounter", "", <<>>)>>
               \o [k \in 1..Len(prescription.medications) |->
                      Resource("MedicationRequest", "",
                               <<prescription.medications[k].name>>)]
               \o create_vital_signs_observations(prescription.patient_info))

\* str(uuid.uuid4()) for each resource, in the order of the draws (ehr_service.py
\* 517-519, 548, 269, 328, 362), which is the order of the entries; `first` is
\* the next identifier the generator hands out.
AssignedIds(resources, first) == [k \in 1..Len(resources) |-> ToString(first + k - 1)]

\* FHIRService.create_fhir_bundle: bundle.id only for a truthy bundle_id, the
\* timestamp read from the clock, one entry per resource.
create_fhir_bundle(resources, bundle_id, timestamp) ==
    [resourceType |-> "Bundle",
     id |-> IF Truthy(bundle_id) THEN bundle_id ELSE Null,
     timestamp |-> timestamp,
     entry |-> [k \in 1..Len(resources) |->
                  [resource |-> resources[k],
                   request |-> [method |-> "POST", url |-> resources[k].resourceType]]]]

\* bundle.model_dump() as submit builds it (ehr_service.py 516-566), <<>> when
\* the pipeline raises: the resources with their ids, create_fhir_bundle called
\* with the resources only.
SubmittedBundle(prescription, first, timestamp) ==
    LET built == BuildBundle(prescription)
        ids == AssignedIds(built.entry, first)
    IN  IF built.raised THEN <<>>
        ELSE <<create_fhir_bundle(
                   [k \in 1..Len(built.entry) |->
                       [resourceType |-> built.entry[k].resourceType,
                        id |-> ids[k],
                        code |-> built.entry[k].code,
                        values |-> built.entry[k].values]],
                   Null, timestamp)>>

\* The except branch returning the ids it had generated.
ExceptionResult_KeepsIds(text) ==
    [success |-> FALSE, has_error |-> TRUE, error |-> text, status_code |-> 0,
     response |-> Null, submitted_bundle |-> Null, patient_fhir_id |-> "patient-uuid",
     encounter_fhir_id |-> "encounter-uuid"]

\* The dict of the except branch (ehr_service.py 598-606).
ExceptionResult(text) ==
    [success |-> FALSE, has_error |-> TRUE, error |-> text, status_code |-> 0,
     response |-> Null, submitted_bundle |-> Null, patient_fhir_id |-> Null,
     encounter_fhir_id |-> Null]

\* The POST and the dict built from its response (ehr_service.py 579-596).
PostResult(remote) ==
    IF remote.kind # "http" THEN ExceptionResult(remote.body)
    ELSE IF remote.content_type = "application/json" /\ ~ParsesAsJson(remote.body)
    THEN ExceptionResult("Expecting value: line 1 column 1 (char 0)")
    ELSE [success |-> remote.status \in {200, 201}, has_error |-> FALSE, error |-> "",
          status_code |-> remote.status, response |-> remote.body,
          submitted_bundle |-> "{bundle}", patient_fhir_id |-> "patient-uuid",
          encounter_fhir_id |-> "encounter-uuid"]

\* What submit returns for `prescription` when the remote endpoint would
\* answer `remote`.
EHRIntegrationService_submit_prescription_to_ehr(prescription, remote) ==
    IF BuildBundle(prescription).raised
    THEN ExceptionResult(BuildBundle(prescription).error)
    ELSE PostResult(remote)

\* EHRIntegrationService.submit_prescription_to_ehr called for a stored
\* prescription: the dict it returns, with the outcome of the pipeline.
client_submit(x, remote) ==
    /\ last' = Response("client_submit", x.doctor_id, x.id, 0, "",
                         <<EHRIntegrationService_submit_prescription_to_ehr(x, remote),
                           BuildBundle(x)>>)
    /\ UNCHANGED <<now, next_id, prescriptions, ehr_configs, ehr_submissions, ehr_tests,
                   tests_saved, saving, submitting, updating, patient_storage,
                   ehr_service>>

\* The bundle one run of submit builds for a stored prescription when the
\* identifier generator stands at `first`.
client_bundle(x, first) ==
    /\ last' = Response("client_bundle", x.doctor_id, x.id, first, "",
                         SubmittedBundle(x, first, now))
    /\ UNCHANGED <<now, next_id, prescriptions, ehr_configs, ehr_submissions, ehr_tests,
                   tests_saved, saving, submitting, updating, patient_storage,
                   ehr_service>>

\* FHIRService.create_medication_request_resource called for the k-th
\* medication of a stored prescription.
client_medication_request(x, k) ==
    /\ last' = Response("client_medication_request", x.doctor_id, x.id, k, "",
                         <<create_medication_request_resource(x.medications[k])>>)
    /\ UNCHANGED <<now, next_id, prescriptions, ehr_configs, ehr_submissions, ehr_tests,
                   tests_saved, saving, submitting, updating, patient_storage,
                   ehr_service>>

\* FHIRService.create_vital_signs_observations called for a stored
\* prescription: the list it returns.
client_vitals(x) ==
    /\ last' = Response("client_vitals", x.doctor_id, x.id, 0, "",
                         create_vital_signs_observations(x.patient_info))
    /\ UNCHANGED <<now, next_id, prescriptions, ehr_configs, ehr_submissions, ehr_tests,
                   tests_saved, saving, submitting, updating, patient_storage,
                   ehr_service>>

(***************************************************************************)
(* POST /api/ehr/submit-prescription, one action per await.                *)
(***************************************************************************)
Slots == 1..MaxInflight

NoResult == ExceptionResult(Null)

Idle ==
    [pc |-> "idle", doctor |-> "", prescription_id |-> 0, provider |-> "",
     submission_id |-> 0, remote |-> TimedOut, result |-> NoResult]

\* The lowest free slot takes the next call.
FreeSlot(slot) ==
    /\ submitting[slot].pc = "idle"
    /\ \A other \in Slots : other < slot => submitting[other].pc # "idle"

\* The prescription lookup and the ownership check: the error response, or
\* code 0 when the handler goes on.
SubmitLookup(d, prescription_id) ==
    LET prescription_data == get_prescription_by_id(prescription_id)
    IN  IF prescription_data = <<>>
        THEN Response("submit", d, prescription_id, 404, "Prescription not found", <<>>)
        ELSE IF prescription_data[1].doctor_id # d
        THEN Response("submit", d, prescription_id, 403, "Access denied", <<>>)
        ELSE Response("submit", d, prescription_id, 0, "", <<>>)

\* Up to the await of get_ehr_configuration_by_provider.
submit_prescription_to_ehr_lookup(slot, d, prescription_id, p) ==
    /\ FreeSlot(slot)
    /\ IF SubmitLookup(d, prescription_id).code # 0
       THEN /\ last' = SubmitLookup(d, prescription_id)
            /\ last' # last
            /\ UNCHANGED submitting
       ELSE /\ submitting' =
                  [submitting EXCEPT ![slot] =
                      [Idle EXCEPT !.pc = "config", !.doctor = d,
                                   !.prescription_id = prescription_id,
                                   !.provider = p]]
            /\ UNCHANGED last
    /\ UNCHANGED <<now, next_id, prescriptions, ehr_configs, ehr_submissions, ehr_tests,
                   tests_saved, saving, updating, patient_storage, ehr_service>>

\* The handler going on to the insert without looking at the configuration.
submit_prescription_to_ehr_config_Unchecked(slot) ==
    LET r == submitting[slot]
    IN  /\ r.pc = "config"
        /\ submitting' = [submitting EXCEPT ![slot].pc = "save"]
        /\ UNCHANGED <<now, next_id, prescriptions, ehr_configs, ehr_submissions,
                       ehr_tests, tests_saved, saving, updating, last,
                   patient_storage, ehr_service>>

\* The configuration lookup: 400 when there is no active configuration.
submit_prescription_to_ehr_config(slot) ==
    LET r == submitting[slot]
    IN  /\ r.pc = "config"
        /\ IF get_ehr_configuration_by_provider(r.doctor, r.provider) = <<>>
           THEN /\ submitting' = [submitting EXCEPT ![slot] = Idle]
                /\ last' = Response("submit", r.doctor, r.prescription_id, 400,
                                     "EHR configuration not found", <<>>)
           ELSE /\ submitting' = [submitting EXCEPT ![slot].pc = "save"]
                /\ UNCHANGED last
        /\ UNCHANGED <<now, next_id, prescriptions, ehr_configs, ehr_submissions,
                       ehr_tests, tests_saved, saving, updating, patient_storage,
                   ehr_service>>

\* save_ehr_submission: the ledger row is inserted.
submit_prescription_to_ehr_save(slot) ==
    LET r == submitting[slot]
    IN  /\ r.pc = "save"
        /\ Len(ehr_submissions) < MaxSubmissions
        /\ ehr_submissions' =
              Append(ehr_submissions, NewSubmission(r.doctor, r.prescription_id, r.provider))
        /\ submitting' = [submitting EXCEPT ![slot].pc = "call",
                                            ![slot].submission_id = next_id]
        /\ now' = now + 1
        /\ next_id' = next_id + 1
        /\ UNCHANGED <<prescriptions, ehr_configs, ehr_tests, tests_saved, saving,
                       updating, last, patient_storage, ehr_service>>

\* async with EHRIntegrationService(): submit runs, the session is closed.
submit_prescription_to_ehr_call(slot, remote) ==
    LET r == submitting[slot]
    IN  /\ r.pc = "call"
        /\ submitting' =
              [submitting EXCEPT
                  ![slot].pc = "update",
                  ![slot].remote = remote,
                  ![slot].result =
                      EHRIntegrationService_submit_prescription_to_ehr(
                          get_prescription_by_id(r.prescription_id)[1], remote)]
        /\ UNCHANGED <<now, next_id, prescriptions, ehr_configs, ehr_submissions,
                       ehr_tests, tests_saved, saving, updating, last,
                   patient_storage, ehr_service>>

\* submission_result.get("error", "Unknown error")
ErrorOf(result) == IF result.has_error THEN result.error ELSE "Unknown error"

\* The second update_one of the success branch (server.py 676-684).
SetFhirIds(row, result) ==
    IF Truthy(result.patient_fhir_id)
    THEN [row EXCEPT !.patient_fhir_id = result.patient_fhir_id,
                     !.encounter_fhir_id = result.encounter_fhir_id,
                     !.submission_data = result.submitted_bundle]
    ELSE row

\* The failure branch leaving the row as it is.
RecordedRow_FailureNotRecorded(row, result) ==
    IF result.success
    THEN SetFhirIds(SetUpdateData(row, "success", result.response, Null), result)
    ELSE row

\* The ledger row after the handler recorded `result` (server.py 667-706).
RecordedRow(row, result) ==
    IF result.success
    THEN SetFhirIds(SetUpdateData(row, "success", result.response, Null), result)
    ELSE SetUpdateData(row, "failed", Null, ErrorOf(result))

\* The response of the handler for `result`.
SubmitResponse(r) ==
    IF r.result.success
    THEN Response("submit", r.doctor, r.prescription_id, 200,
                  "Prescription submitted to EHR successfully", <<r.submission_id>>)
    ELSE Response("submit", r.doctor, r.prescription_id, 502,
                  ErrorOf(r.result), <<>>)

\* The handler also stamping the prescription it submitted.
submit_prescription_to_ehr_update_StampsPrescription(slot) ==
    LET r == submitting[slot]
        i == SubmissionIndex(r.submission_id)
    IN  /\ r.pc = "update"
        /\ ehr_submissions' =
              IF i = 0 THEN ehr_submissions
              ELSE [ehr_submissions EXCEPT ![i] = RecordedRow(@, r.result)]
        /\ prescriptions' =
              [k \in 1..Len(prescriptions) |->
                  IF prescriptions[k].id = r.prescription_id
                  THEN [prescriptions[k] EXCEPT !.updated_at = now]
                  ELSE prescriptions[k]]
        /\ submitting' = [submitting EXCEPT ![slot] = Idle]
        /\ last' = SubmitResponse(r)
        /\ UNCHANGED <<now, next_id, ehr_configs, ehr_tests, tests_saved,
                       saving, updating, patient_storage, ehr_service>>

\* update_ehr_submission_status with the outcome, then the response.
submit_prescription_to_ehr_update(slot) ==
    LET r == submitting[slot]
        i == SubmissionIndex(r.submission_id)
    IN  /\ r.pc = "update"
        /\ ehr_submissions' =
              IF i = 0 THEN ehr_submissions
              ELSE [ehr_submissions EXCEPT ![i] = RecordedRow(@, r.result)]
        /\ submitting' = [submitting EXCEPT ![slot] = Idle]
        /\ last' = SubmitResponse(r)
        /\ UNCHANGED <<now, next_id, prescriptions, ehr_configs, ehr_tests, tests_saved,
                       saving, updating, patient_storage, ehr_service>>

Init ==
    /\ now = 1
    /\ next_id = 1
    /\ prescriptions = <<>>
    /\ ehr_configs = <<>>
    /\ ehr_submissions = <<>>
    /\ ehr_tests = <<>>
    /\ tests_saved = [d \in Doctors |-> [p \in Providers |-> <<>>]]
    /\ saving = {}
    /\ submitting = [slot \in Slots |-> Idle]
    /\ updating = {}
    /\ last = NoResponse
    /\ patient_storage = [patients |-> <<>>, visits |-> <<>>]
    /\ ehr_service = [clients |-> <<>>, sessions |-> <<>>]

(***************************************************************************)
(* The API boundary: prescriptions, configurations and submissions under   *)
(* concurrent calls of both doctors.                                       *)
(***************************************************************************)
\* The answers of the remote endpoint the calls are run against.
SubmitRemotes ==
    {Http(200, "application/json", "{json}"),
     Http(500, "text/plain", "Internal Server Error"),
     TimedOut}

\* An id no prescription has.
NoSuchId == 0

\* The prescription ids a caller submits: every stored one and a missing one.
SubmitTargets == {x.id : x \in Range(prescriptions)} \cup {NoSuchId}

NextOf(callers) ==
    \/ \E d \in callers : create_prescription(d, ValidPrescription)
    \/ \E d \in callers : save_ehr_configuration_find(d, "Epic", "https://fhir.one/")
    \/ \E s \in saving : save_ehr_configuration_write(s)
    \/ \E slot \in Slots, d \in callers, id \in SubmitTargets :
          submit_prescription_to_ehr_lookup(slot, d, id, "Epic")
    \/ \E slot \in Slots : submit_prescription_to_ehr_config(slot)
    \/ \E slot \in Slots : submit_prescription_to_ehr_save(slot)
    \/ \E slot \in Slots, remote \in SubmitRemotes :
          submit_prescription_to_ehr_call(slot, remote)
    \/ \E slot \in Slots : submit_prescription_to_ehr_update(slot)

Next == NextOf(Doctors)

Spec == Init /\ [][Next]_vars

\* The event loop resumes every call whose await has completed; the client
\* call ends within its 30 s total timeout.
Fairness ==
    \A slot \in Slots :
        /\ WF_vars(\E remote \in SubmitRemotes : submit_prescription_to_ehr_call(slot, remote))
        /\ WF_vars(submit_prescription_to_ehr_update(slot))

NextLive == NextOf({"A"})

LiveSpec == Init /\ [][NextLive]_vars /\ Fairness

Terminal(i) ==
    /\ Len(ehr_submissions) >= i
    /\ ehr_submissions[i].status \in {"success", "failed"}
    /\ ehr_submissions[i].completed_at # NoTime

\* C1: every ledger row created by a submit call eventually has status
\* success or failed with completed_at set; none stays pending or retry
\* forever.
C1_EveryRowReachesTerminal ==
    \A i \in 1..(MaxSubmissions + 1) : (Len(ehr_submissions) >= i) ~> Terminal(i)

C1_Witness ==
    /\ Len(ehr_submissions) >= 1
    /\ Terminal(1)
    /\ last.op = "submit"
    /\ last.code = 502

\* The ledger row of the call in `slot`, <<>> when there is none.
RowOf(slot) == get_ehr_submission_by_id(submitting[slot].submission_id)

\* C2: the ledger row is inserted before the client call that holds the
\* outbound POST; from the insert until the call's result is recorded the
\* row of the attempt exists with status pending, retry_count 0 and
\* completed_at null.
C2_RowPendingWhileCallInFlight ==
    \A slot \in Slots :
        submitting[slot].pc \in {"call", "update"} =>
            /\ RowOf(slot) # <<>>
            /\ RowOf(slot)[1].doctor_id = submitting[slot].doctor
            /\ RowOf(slot)[1].prescription_id = submitting[slot].prescription_id
            /\ RowOf(slot)[1].status = "pending"
            /\ RowOf(slot)[1].retry_count = 0
            /\ RowOf(slot)[1].completed_at = NoTime

C2_Witness ==
    \E slot \in Slots :
        /\ submitting[slot].pc = "update"
        /\ submitting[slot].remote.kind = "http"
        /\ RowOf(slot) # <<>>
        /\ RowOf(slot)[1].status = "pending"

\* The remote endpoint refused, timed out or answered outside 2xx.
RemoteFailed(remote) == remote.kind # "http" \/ remote.status \notin 200..299

\* The texts that describe the failure of `remote`: the exception text, or
\* the response text of the non-2xx answer.
FailureTexts(remote) == {remote.body}

\* C3: when the remote endpoint refuses the connection, times out or answers
\* outside 2xx, the row of the attempt ends failed and its error_message is
\* the text describing that failure.
C3_RemoteFailureTextPreserved ==
    [][\A slot \in Slots :
          (submit_prescription_to_ehr_update(slot)
             /\ RemoteFailed(submitting[slot].remote)) =>
              LET row == ehr_submissions'[SubmissionIndex(submitting[slot].submission_id)]
              IN  /\ row.status = "failed"
                  /\ row.error_message \in FailureTexts(submitting[slot].remote)]_vars

\* A step of a submit call: a call starts, advances or answers.
SubmitStep ==
    \/ submitting' # submitting
    \/ ehr_submissions' # ehr_submissions
    \/ last'.op = "submit" /\ last' # last

\* C4: no step of a submit call creates, changes or deletes a prescription;
\* of the stored collections only the submission ledger changes.
C4_SubmitLeavesPrescriptions ==
    [][SubmitStep => UNCHANGED <<prescriptions, ehr_configs, ehr_tests>>]_vars

C4_Witness ==
    \E row \in Range(ehr_submissions), x \in Range(prescriptions) :
        /\ row.status = "failed"
        /\ row.completed_at # NoTime
        /\ x.id = row.prescription_id
        /\ x.updated_at = x.created_at
        /\ last.op = "submit"
        /\ last.arg = x.id
        /\ last.code = 502

\* What a caller can tell from a response.
Outcome(response) == <<response.code, response.detail, response.body>>

\* C5 as stated: for a caller who is not the owner, an id owned by another
\* doctor gives the same outcome as an id that does not exist, for
\* get-prescription, submit-prescription and get-submission-details.
C5_OtherOwnerLooksNonExistent ==
    \A b \in Doctors :
        /\ \A x \in Range(prescriptions) :
              x.doctor_id # b =>
                  /\ Outcome(get_prescription(b, x.id))
                        = Outcome(get_prescription(b, NoSuchId))
                  /\ Outcome(SubmitLookup(b, x.id)) = Outcome(SubmitLookup(b, NoSuchId))
        /\ \A r \in Range(ehr_submissions) :
              r.doctor_id # b =>
                  Outcome(get_ehr_submission_details(b, r.id))
                    = Outcome(get_ehr_submission_details(b, NoSuchId))

\* C5: for a caller who is not the owner, get-prescription, submit-prescription
\* and get-submission-details refuse an id owned by another doctor with 403
\* "Access denied" and an id that does not exist with 404; neither response
\* carries any content of a record.
C5_OtherOwnerRefusedWithoutContent ==
    \A b \in Doctors :
        /\ \A x \in Range(prescriptions) :
              x.doctor_id # b =>
                  /\ Outcome(get_prescription(b, x.id)) = <<403, "Access denied", <<>> >>
                  /\ Outcome(SubmitLookup(b, x.id)) = <<403, "Access denied", <<>> >>
        /\ \A r \in Range(ehr_submissions) :
              r.doctor_id # b =>
                  Outcome(get_ehr_submission_details(b, r.id))
                    = <<403, "Access denied", <<>> >>
        /\ Outcome(get_prescription(b, NoSuchId)) = <<404, "Prescription not found", <<>> >>
        /\ Outcome(SubmitLookup(b, NoSuchId)) = <<404, "Prescription not found", <<>> >>
        /\ Outcome(get_ehr_submission_details(b, NoSuchId))
              = <<404, "Submission not found", <<>> >>

C5_Witness ==
    \E x \in Range(prescriptions), r \in Range(ehr_submissions) :
        /\ x.doctor_id = "A"
        /\ r.doctor_id = "A"
        /\ last = SubmitLookup("B", x.id)
        /\ get_prescription("B", x.id).code = 403
        /\ get_ehr_submission_details("B", r.id).code = 403

\* The arguments the list endpoint is called with.
ListSkips == 0..1
ListLimits == 0..2
ListStatuses == Statuses \cup {Null, ""}

\* C6: the submissions listed for a doctor are all that doctor's, whatever
\* skip, limit and status filter are given.
C6_ListOnlyOwnRows ==
    \A d \in Doctors, skip \in ListSkips, limit \in ListLimits, status \in ListStatuses :
        \A r \in Range(get_ehr_submissions(d, skip, limit, status)) : r.doctor_id = d

C6_Witness ==
    /\ \E r \in Range(ehr_submissions) : r.doctor_id = "A"
    /\ Len(get_ehr_submissions("B", 0, 0, Null)) >= 1
    /\ Len(get_ehr_submissions("B", 0, 1, "failed")) = 1

\* C20: every accepted submit call inserts exactly one new row with an id of
\* its own, also when calls for the same prescription and provider run
\* concurrently; no row is ever removed or moved, and a row changes only in
\* the step in which its own call records the outcome.
C20_OneOwnRowPerCall ==
    [][/\ Len(ehr_submissions') >= Len(ehr_submissions)
       /\ \A k \in 1..Len(ehr_submissions) :
             /\ ehr_submissions'[k].id = ehr_submissions[k].id
             /\ ehr_submissions'[k] # ehr_submissions[k] =>
                   \E slot \in Slots :
                       /\ submitting[slot].pc = "update"
                       /\ submitting[slot].submission_id = ehr_submissions[k].id
                       /\ submitting'[slot].pc = "idle"
       /\ \A j, k \in 1..Len(ehr_submissions') :
             j # k => ehr_submissions'[j].id # ehr_submissions'[k].id
       /\ \A slot \in Slots :
             (submitting[slot].pc = "save" /\ submitting'[slot].pc = "call") =>
                 /\ Len(ehr_submissions') = Len(ehr_submissions) + 1
                 /\ ehr_submissions'[Len(ehr_submissions')].id
                       = submitting'[slot].submission_id
                 /\ \A other \in Slots \ {slot} :
                       submitting'[other].submission_id # submitting'[slot].submission_id
      ]_vars

C20_Witness ==
    \E s1, s2 \in Slots :
        /\ s1 # s2
        /\ submitting[s1].pc \in {"call", "update"}
        /\ submitting[s2].pc \in {"call", "update"}
        /\ submitting[s1].prescription_id = submitting[s2].prescription_id
        /\ submitting[s1].provider = submitting[s2].provider
        /\ submitting[s1].submission_id # submitting[s2].submission_id
        /\ RowOf(s1) # <<>>
        /\ RowOf(s2) # <<>>
        /\ RowOf(s1)[1].status = "pending"
        /\ RowOf(s2)[1].status = "pending"

(***************************************************************************)
(* The configuration store under concurrent configure and delete calls.    *)
(***************************************************************************)
NextConfig ==
    \/ \E d \in Doctors, p \in Providers, url \in BaseUrls :
          save_ehr_configuration_find(d, p, url)
    \/ \E s \in saving : save_ehr_configuration_write(s)
    \/ \E d \in Doctors, id \in 1..MaxConfigSaves : delete_ehr_configuration(d, id)

SpecConfig == Init /\ [][NextConfig]_vars

RowWithId(coll, id) == {c \in Range(coll) : c.id = id}

\* C7: in every reachable state, concurrent saves included, the store holds at most
\* one active configuration row per (doctor_id, provider).
C7_OneActivePerPair ==
    \A d \in Doctors, p \in Providers : Cardinality(ActiveConfigsOf(d, p)) <= 1

\* C8: when a save whose lookup found a row for its (doctor, provider) completes, no
\* row is added, the row found keeps its id and its created_at, takes the new
\* base_url and updated_at, is active, and get_by_provider for the pair returns
\* the new values.
C8_SaveReplacesInPlace ==
    [][\A s \in saving :
          (s \notin saving' /\ s.existing_config # <<>>) =>
             LET old == s.existing_config[1]
                 d == s.config_data.doctor_id
                 p == s.config_data.provider
                 got == find_one(ehr_configs',
                                 {c \in Range(ehr_configs') :
                                     c.doctor_id = d /\ c.provider = p /\ c.is_active})
             IN  /\ Len(ehr_configs') = Len(ehr_configs)
                 /\ \A before \in RowWithId(ehr_configs, old.id) :
                        \A after \in RowWithId(ehr_configs', old.id) :
                           /\ after.created_at = before.created_at
                           /\ after.base_url = s.config_data.base_url
                           /\ after.updated_at = s.config_data.updated_at
                           /\ after.doctor_id = d /\ after.provider = p
                           /\ after.is_active
                 /\ Cardinality(RowWithId(ehr_configs', old.id)) = 1
                 /\ got # <<>>
                 /\ got[1].base_url = s.config_data.base_url
                 /\ got[1].id = old.id]_vars

\* A second save for a pair has completed: its row is active, was updated after
\* it was created, and is the one get_by_provider returns.
C8_Witness ==
    \E c \in Range(ehr_configs) :
        /\ c.is_active
        /\ c.updated_at > c.created_at
        /\ get_ehr_configuration_by_provider(c.doctor_id, c.provider) = <<c>>
        /\ last.op = "configure" /\ last.arg = c.id

(***************************************************************************)
(* The connection-test history under test-connection calls made one after  *)
(* another.                                                                *)
(***************************************************************************)
TestCalls ==
    {<<"A", "Epic", Http(200, "application/json", "{json}")>>,
     <<"A", "Cerner", Refused>>,
     <<"B", "Epic", Http(500, "text/plain", "Internal Server Error")>>}

NextTests == \E c \in TestCalls : test_ehr_connection(c[1], c[2], c[3])

SpecTests == Init /\ [][NextTests]_vars

Min(a, b) == IF a < b THEN a ELSE b

\* C9: after n results were saved one after another for a (doctor, provider),
\* exactly min(n, 10) are stored for the pair, and they are the most recently
\* saved ones.
C9_TenMostRecentKept ==
    \A d \in Doctors, p \in Providers :
        LET n == Len(tests_saved[d][p])
            kept == Min(n, KeepTests)
        IN  /\ Cardinality(TestsOf(ehr_tests, d, p)) = kept
            /\ {t.created_at : t \in TestsOf(ehr_tests, d, p)} =
                  {tests_saved[d][p][k] : k \in (n - kept + 1)..n}

(***************************************************************************)
(* The ledger under create and update_status calls from any caller.        *)
(***************************************************************************)
\* The calls made: a success carries the response, a failure the error text.
LedgerCalls ==
    {<<"success", "{json}", Null>>, <<"success", "{}", Null>>,
     <<"failed", Null, "timeout">>, <<"failed", Null, "">>,
     <<"pending", Null, Null>>}

NextLedger ==
    \/ \E d \in Doctors : save_ehr_submission(d, 1, "Epic")
    \/ \E id \in 1..next_id, c \in LedgerCalls :
          update_ehr_submission_status(id, c[1], c[2], c[3])
    \/ \E id \in 1..next_id : update_ehr_submission_status_inc(id, Null, Null)
    \/ \E call \in updating : update_ehr_submission_status_set(call)

SpecLedger == Init /\ [][NextLedger]_vars

\* C10: update_status(id, s) with s success or failed on an existing row sets
\* the row's status to s, sets completed_at, and stores the supplied
\* ehr_response (for success) or error_message (for failed) in the row.
C10_TerminalUpdateStoresOutcome ==
    [][\A id \in 1..next_id, c \in LedgerCalls :
          (/\ c[1] \in {"success", "failed"}
           /\ SubmissionIndex(id) # 0
           /\ update_ehr_submission_status(id, c[1], c[2], c[3])) =>
             LET row == ehr_submissions'[SubmissionIndex(id)]
             IN  /\ row.status = c[1]
                 /\ row.completed_at # NoTime
                 /\ c[1] = "success" => row.ehr_response = c[2]
                 /\ c[1] = "failed" => row.error_message = c[3]]_vars

\* C11: update_status(id, "retry") on an existing row raises retry_count by
\* exactly 1 (the $inc), writes status retry (the $set), and neither of its
\* two writes touches completed_at; this holds for every repetition.
C11_RetryIncrementsOnly ==
    [][/\ \A id \in 1..next_id :
             (SubmissionIndex(id) # 0 /\ update_ehr_submission_status_inc(id, Null, Null)) =>
                 LET row == ehr_submissions[SubmissionIndex(id)]
                     after == ehr_submissions'[SubmissionIndex(id)]
                 IN  /\ after.retry_count = row.retry_count + 1
                     /\ after.completed_at = row.completed_at
       /\ \A call \in updating :
             (SubmissionIndex(call.submission_id) # 0
                /\ update_ehr_submission_status_set(call)) =>
                 LET row == ehr_submissions[SubmissionIndex(call.submission_id)]
                     after == ehr_submissions'[SubmissionIndex(call.submission_id)]
                 IN  /\ after.status = "retry"
                     /\ after.retry_count = row.retry_count
                     /\ after.completed_at = row.completed_at]_vars

C11_Witness ==
    /\ updating = {}
    /\ \E row \in Range(ehr_submissions) :
          /\ row.status = "retry"
          /\ row.retry_count = MaxRetryCount
          /\ row.completed_at = NoTime

\* C12: the retry_count increment is atomic with the write of status retry:
\* in no state has a call incremented retry_count of a row without the row
\* having status retry.
C12_RetryIncrementAtomic ==
    \A call \in updating :
        SubmissionIndex(call.submission_id) # 0 =>
            ehr_submissions[SubmissionIndex(call.submission_id)].status = "retry"

(***************************************************************************)
(* The metadata probe against every kind of answer.                        *)
(***************************************************************************)
MaxProbes == 2

ProbeRemotes ==
    {Http(200, "application/fhir+json", CapabilityStatement),
     Http(200, "application/json", "{}"),
     Http(200, "application/json", "[]"),
     Http(200, "application/json", "5"),
     Http(200, "application/json", UntypedResource),
     Http(200, "application/json", "<html>"),
     Http(200, "text/html", "<html>"),
     Http(201, "application/fhir+json", CapabilityStatement),
     Http(404, "text/plain", "Not Found"),
     Http(500, "text/plain", "Internal Server Error"),
     Refused, TimedOut}

NextProbe ==
    /\ TotalTestsSaved < MaxProbes
    /\ \E d \in Doctors, p \in Providers, remote \in ProbeRemotes :
          test_ehr_connection(d, p, remote)

SpecProbe == Init /\ [][NextProbe]_vars

\* A 200 answer whose body cannot be parsed, or parses to something that is
\* not a capability statement: not a JSON object, or a resource without type.
UnparseableOrMalformed(remote) ==
    \/ remote.content_type \notin JsonContentTypes
    \/ ~ParsesAsJson(remote.body)
    \/ JsonOf(remote.body).type # "object"
    \/ ProbeReadError(JsonOf(remote.body)) # ""

\* The failure modes of the probe: unreachable, timeout, non-200, and 200
\* with an unparseable or malformed body.
ProbeFails(remote) ==
    \/ remote.kind # "http"
    \/ remote.status # 200
    \/ UnparseableOrMalformed(remote)

\* The test the endpoint answered with, and whether it stored it.
Answered(response) == response.body[1]

StoredAs(tests, id, test_result) ==
    \E t \in Range(tests) :
        t.id = id /\ t.provider = test_result.provider /\ t.status = test_result.status

\* C13: for an unreachable endpoint, a timeout, a non-200 answer and a 200
\* answer with an unparseable or malformed body, test_connection returns
\* status ERROR with a non-empty message, and the endpoint completes and
\* stores that result.
C13_ProbeFailureIsErrorResult ==
    [][\A d \in Doctors, p \in Providers, remote \in ProbeRemotes :
          (ProbeFails(remote) /\ test_ehr_connection(d, p, remote)) =>
              /\ last'.code = 200
              /\ Answered(last').status = "error"
              /\ \E k \in 1..Len(Answered(last').message) : Answered(last').message[k] # ""
              /\ StoredAs(ehr_tests', next_id, Answered(last'))]_vars

\* C19 as stated: every answer with HTTP 200 gives CONNECTED, every other
\* HTTP status gives ERROR with the response body in the message.
C19_Every200IsConnected ==
    [][\A d \in Doctors, p \in Providers, remote \in ProbeRemotes :
          (remote.kind = "http" /\ test_ehr_connection(d, p, remote)) =>
              IF remote.status = 200
              THEN Answered(last').status = "connected"
              ELSE /\ Answered(last').status = "error"
                   /\ \E k \in 1..Len(Answered(last').message) :
                         Answered(last').message[k] = remote.body]_vars

\* C19: an answer with HTTP 200 whose body is read as JSON without error
\* gives CONNECTED with the set of the resource types under
\* rest[].resource[].type and the fhirVersion when present; every other
\* HTTP status gives ERROR with the response body in the message.
C19_Readable200IsConnected ==
    [][\A d \in Doctors, p \in Providers, remote \in ProbeRemotes :
          (remote.kind = "http" /\ test_ehr_connection(d, p, remote)) =>
              IF remote.status = 200
              THEN (/\ remote.content_type \in JsonContentTypes
                    /\ ParsesAsJson(remote.body)
                    /\ ProbeReadError(JsonOf(remote.body)) = "") =>
                       /\ Answered(last').status = "connected"
                       /\ Answered(last').fhir_version = JsonOf(remote.body).fhirVersion
                       /\ \A i \in 1..Len(JsonOf(remote.body).rest) :
                             \A j \in 1..Len(JsonOf(remote.body).rest[i]) :
                                JsonOf(remote.body).rest[i][j] \in Answered(last').capabilities
                       /\ remote.body = CapabilityStatement =>
                             /\ Answered(last').capabilities = {"Patient", "Encounter"}
                             /\ Answered(last').fhir_version = "4.0.1"
              ELSE /\ Answered(last').status = "error"
                   /\ \E k \in 1..Len(Answered(last').message) :
                         Answered(last').message[k] = remote.body]_vars

C19_Witness ==
    /\ last.op = "test_connection"
    /\ Answered(last).status = "connected"
    /\ Answered(last).capabilities = {"Patient", "Encounter"}
    /\ \E t \in Range(ehr_tests) : t.status = "error"

(***************************************************************************)
(* The EHR client and the resource builders run on one stored prescription *)
(* of every shape.                                                         *)
(***************************************************************************)
Ages == {"45", "abc", Null}
BloodPressures == {"120/80", "120", "120/x", "120/80/70", Null}
HeartRates == {"72", "fast", Null}
Temperatures == {"98.6", "hot", Null}
Frequencies ==
    {"twice daily", "once daily", "four times a day (qid)", "Three times daily", "TID",
     "BID", "twice or three times daily", "every 8 hours", ""}

MedicationLists ==
    {<<>>,
     <<Medication("Amoxicillin", "twice daily")>>,
     <<Medication("Amoxicillin", "twice daily"), Medication("Ibuprofen", "once daily")>>}
      \cup {<<Medication("Metformin", frequency)>> : frequency \in Frequencies}

Prescriptions ==
    {Prescription(age, bp, hr, temp, meds) :
        age \in Ages, bp \in BloodPressures, hr \in HeartRates, temp \in Temperatures,
        meds \in MedicationLists}

\* The most resources a bundle of these prescriptions has.
MaxBundleEntries == 8

\* Where the identifier generator stands when a run of submit starts: at the
\* next unused identifier, or past the draws of an earlier run.
UuidSeeds == {next_id, next_id + MaxBundleEntries}

NextBuilder ==
    \/ /\ prescriptions = <<>>
       /\ \E prescription \in Prescriptions : create_prescription("A", prescription)
    \/ \E x \in Range(prescriptions), remote \in RemoteOutcomes : client_submit(x, remote)
    \/ \E x \in Range(prescriptions) : client_vitals(x)
    \/ \E x \in Range(prescriptions), first \in UuidSeeds : client_bundle(x, first)
    \/ \E x \in Range(prescriptions) :
          \E k \in 1..Len(x.medications) : client_medication_request(x, k)

SpecBuilder == Init /\ [][NextBuilder]_vars

\* A step of submit throws: the builders, the POST, or reading the response.
Throws(x, remote) ==
    \/ BuildBundle(x).raised
    \/ remote.kind # "http"
    \/ remote.content_type = "application/json" /\ ~ParsesAsJson(remote.body)

\* The message of the exception thrown first.
ThrownText(x, remote) ==
    IF BuildBundle(x).raised THEN BuildBundle(x).error
    ELSE IF remote.kind # "http" THEN remote.body
    ELSE "Expecting value: line 1 column 1 (char 0)"

\* C14: submit never raises to its caller: when a step throws it returns a
\* result with success false, the exception message, and patient_fhir_id and
\* encounter_fhir_id both null.
C14_SubmitFailureIsResult ==
    [][\A x \in Range(prescriptions), remote \in RemoteOutcomes :
          (Throws(x, remote) /\ client_submit(x, remote)) =>
              /\ Len(last'.body) = 2
              /\ ~last'.body[1].success
              /\ last'.body[1].has_error
              /\ last'.body[1].error = ThrownText(x, remote)
              /\ last'.body[1].patient_fhir_id = Null
              /\ last'.body[1].encounter_fhir_id = Null]_vars

C14_Witness ==
    /\ last.op = "client_submit"
    /\ ~last.body[1].success
    /\ last.body[1].error = ValidationErrorText("FHIREncounter")
    /\ last.body[1].patient_fhir_id = Null

\* The answers C15 is about: an HTTP status with a body submit can read.
Readable(remote) ==
    /\ remote.kind = "http"
    /\ remote.content_type = "application/json" => ParsesAsJson(remote.body)

IsValidPrescription(x) ==
    /\ x.patient_info = ValidPrescription.patient_info
    /\ x.medications = ValidPrescription.medications

\* C15: for a valid prescription, when the remote answers the POST with 200
\* or 201 submit returns success true with that status code, the response
\* body, the submitted bundle and the generated patient and encounter ids;
\* for any other status it returns success false with the status code.
C15_SuccessOn200Or201 ==
    [][\A x \in Range(prescriptions), remote \in RemoteOutcomes :
          (IsValidPrescription(x) /\ Readable(remote) /\ client_submit(x, remote)) =>
              IF remote.status \in {200, 201}
              THEN /\ last'.body[1].success
                   /\ last'.body[1].status_code = remote.status
                   /\ last'.body[1].response = remote.body
                   /\ last'.body[1].submitted_bundle # Null
                   /\ last'.body[1].patient_fhir_id # Null
                   /\ last'.body[1].encounter_fhir_id # Null
              ELSE /\ ~last'.body[1].success
                   /\ last'.body[1].status_code = remote.status]_vars

\* Which vitals of a PatientInfo are given, and which of those are malformed.
WellFormedBloodPressure(text) ==
    Len(SplitSlash(text)) = 2 /\ \A k \in 1..2 : ParsesAsInt(SplitSlash(text)[k])

MalformedFields(patient_info) ==
    {f \in {"age", "blood_pressure", "heart_rate", "temperature"} :
        /\ patient_info[f] # Null
        /\ CASE f = "age" -> ~ParsesAsInt(patient_info[f])
             [] f = "blood_pressure" -> ~WellFormedBloodPressure(patient_info[f])
             [] f = "heart_rate" -> ~ParsesAsInt(patient_info[f])
             [] f = "temperature" -> ~ParsesAsFloat(patient_info[f])}

ResourcesOfType(entry, resourceType) ==
    {k \in 1..Len(entry) : entry[k].resourceType = resourceType}

\* C16: for a prescription with a single malformed patient field the builder
\* pipeline run by submit still produces a bundle with the Patient, the
\* Practitioner, the Encounter and one MedicationRequest per medication.
C16_MalformedFieldKeepsBundle ==
    [][\A x \in Range(prescriptions), remote \in RemoteOutcomes :
          (Cardinality(MalformedFields(x.patient_info)) = 1 /\ client_submit(x, remote)) =>
              /\ ~last'.body[2].raised
              /\ \A t \in {"Patient", "Practitioner", "Encounter"} :
                    Cardinality(ResourcesOfType(last'.body[2].entry, t)) = 1
              /\ Cardinality(ResourcesOfType(last'.body[2].entry, "MedicationRequest"))
                    = Len(x.medications)]_vars

\* The LOINC codes of the observations the well-formed vitals call for.
ExpectedCodes(patient_info) ==
    {c \in {"85354-9", "8867-4", "8310-5"} :
        LET f == CASE c = "85354-9" -> "blood_pressure"
                   [] c = "8867-4" -> "heart_rate"
                   [] c = "8310-5" -> "temperature"
        IN  patient_info[f] # Null /\ f \notin MalformedFields(patient_info)}

\* C17: build_vital_observations returns without raising, with no
\* observation for a malformed vital and the observations of the
\* well-formed vitals.
C17_VitalsOmitOnlyMalformed ==
    [][\A x \in Range(prescriptions) :
          client_vitals(x) =>
              {last'.body[k].code : k \in 1..Len(last'.body)}
                  = ExpectedCodes(x.patient_info)]_vars

\* C18: for a blood pressure 'S/D' with integers S and D,
\* build_vital_observations returns exactly one blood-pressure observation
\* whose two components carry S and D.
C18_BloodPressureObservation ==
    [][\A x \in Range(prescriptions) :
          (x.patient_info.blood_pressure # Null
             /\ WellFormedBloodPressure(x.patient_info.blood_pressure)
             /\ client_vitals(x)) =>
              /\ Cardinality(ResourcesOfType(last'.body, "Observation")
                               \cap {k \in 1..Len(last'.body) :
                                        last'.body[k].code = "85354-9"}) = 1
              /\ \A k \in 1..Len(last'.body) :
                    last'.body[k].code = "85354-9" =>
                        last'.body[k].values = SplitSlash(x.patient_info.blood_pressure)]_vars

(***************************************************************************)
(* One submit call at a time while the caller's configurations are saved   *)
(* and deleted by concurrent requests.                                     *)
(***************************************************************************)
\* The configuration ids a caller deletes: every stored one and a missing one.
DeleteTargets == {c.id : c \in Range(ehr_configs)} \cup {NoSuchId}

NextSubmit ==
    \/ \E d \in Doctors : create_prescription(d, ValidPrescription)
    \/ save_ehr_configuration_find("A", "Epic", "https://fhir.one/")
    \/ \E s \in saving : save_ehr_configuration_write(s)
    \/ \E id \in DeleteTargets : delete_ehr_configuration("A", id)
    \/ \E d \in Doctors, id \in SubmitTargets :
          submit_prescription_to_ehr_lookup(1, d, id, "Epic")
    \/ submit_prescription_to_ehr_config(1)
    \/ submit_prescription_to_ehr_save(1)
    \/ \E remote \in SubmitRemotes : submit_prescription_to_ehr_call(1, remote)
    \/ submit_prescription_to_ehr_update(1)

SpecSubmit == Init /\ [][NextSubmit]_vars

\* The prescription exists and is the caller's.
OwnsPrescription(d, prescription_id) ==
    /\ get_prescription_by_id(prescription_id) # <<>>
    /\ get_prescription_by_id(prescription_id)[1].doctor_id = d

\* The handler refuses the call: an error response, no row, no client call.
Refuses(slot, codes) ==
    /\ last'.op = "submit" /\ last'.code \in codes
    /\ submitting'[slot].pc = "idle"
    /\ ehr_submissions' = ehr_submissions

\* C21 (as stated): a ledger row is inserted only if, at the moment of the insert,
\* the prescription exists, is the caller's, and the pair (caller, provider) has
\* an active configuration.
C21_RowOnlyWhileConfigActive ==
    [][Len(ehr_submissions') > Len(ehr_submissions) =>
          \E slot \in Slots :
              /\ submitting[slot].pc = "save"
              /\ OwnsPrescription(submitting[slot].doctor, submitting[slot].prescription_id)
              /\ get_ehr_configuration_by_provider(submitting[slot].doctor,
                                                   submitting[slot].provider) # <<>>
      ]_vars

\* C21 (amended): a ledger row is inserted only by a call whose own lookups found
\* the prescription, owned by the caller, and then an active configuration for
\* (caller, provider); a call whose lookup fails gets 404, 403 or 400, inserts no
\* row and never reaches the client call. Every stored row is for a stored
\* prescription of its doctor and a stored configuration of (doctor, provider).
C21_RowOnlyAfterLookupsPassed ==
    /\ [](\A row \in Range(ehr_submissions) :
             /\ OwnsPrescription(row.doctor_id, row.prescription_id)
             /\ ConfigsOf(row.doctor_id, row.ehr_provider) # {})
    /\ [][\A slot \in Slots :
             LET r == submitting[slot]
             IN  /\ (r.pc = "idle" /\ submitting'[slot].pc # "idle") =>
                       /\ submitting'[slot].pc = "config"
                       /\ OwnsPrescription(submitting'[slot].doctor,
                                           submitting'[slot].prescription_id)
                 /\ (FreeSlot(slot) /\ submitting' = submitting
                        /\ last' # last /\ last'.op = "submit") =>
                       /\ ~OwnsPrescription(last'.caller, last'.arg)
                       /\ Refuses(slot, {403, 404})
                 /\ r.pc = "config" /\ submitting'[slot] # r =>
                       IF get_ehr_configuration_by_provider(r.doctor, r.provider) # <<>>
                       THEN submitting'[slot].pc = "save" /\ ehr_submissions' = ehr_submissions
                       ELSE Refuses(slot, {400})
                 /\ submitting'[slot].pc = "save" => r.pc \in {"config", "save"}
                 /\ submitting'[slot].pc = "call" => r.pc \in {"save", "call"}
                 /\ Len(ehr_submissions') > Len(ehr_submissions) =>
                       \E s \in Slots : submitting[s].pc = "save" /\ submitting'[s].pc = "call"
      ]_vars

\* A row was inserted for a pair whose configuration was deleted between the
\* handler's lookup and its insert; the client call is about to run.
C21_Witness ==
    \E slot \in Slots :
        /\ submitting[slot].pc = "call"
        /\ RowOf(slot) # <<>>
        /\ OwnsPrescription(submitting[slot].doctor, submitting[slot].prescription_id)
        /\ get_ehr_configuration_by_provider(submitting[slot].doctor,
                                             submitting[slot].provider) = <<>>
        /\ ConfigsOf(submitting[slot].doctor, submitting[slot].provider) # {}

\* C22: when the call of an attempt ends with an answer of the remote endpoint to
\* the POST, accepted or rejected, the attempt's row holds in submission_data
\* the bundle that was sent.
C22_StoredBundleIsSentBundle ==
    [][\A slot \in Slots :
          LET r == submitting[slot]
          IN  (r.pc = "update" /\ submitting'[slot].pc = "idle" /\ r.remote.kind = "http") =>
                  \A row \in RowWithId(ehr_submissions', r.submission_id) :
                      row.submission_data = PostResult(r.remote).submitted_bundle
      ]_vars

\* The rows of the pair (d, p) that were deleted and not saved again since.
DeletedConfigsOf(d, p) == {c \in ConfigsOf(d, p) : ~c.is_active}

\* The stored rows stay stored, a deleted row is returned by neither getter, and
\* it becomes active again only when a save for its pair completes.
SoftDeleteKeepsRowHidden ==
    /\ Len(ehr_configs') >= Len(ehr_configs)
    /\ \A k \in 1..Len(ehr_configs) : ehr_configs'[k].id = ehr_configs[k].id
    /\ \A d \in Doctors, id \in DeleteTargets :
          delete_ehr_configuration(d, id) =>
              \A k \in 1..Len(ehr_configs) :
                  (ehr_configs[k].id = id /\ ehr_configs[k].doctor_id = d) =>
                      ~ehr_configs'[k].is_active
    /\ \A c \in Range(ehr_configs') :
          ~c.is_active =>
              /\ c \notin Range(get_ehr_configurations(c.doctor_id))'
              /\ get_ehr_configuration_by_provider(c.doctor_id, c.provider)' # <<c>>
    /\ \A k \in 1..Len(ehr_configs) :
          (~ehr_configs[k].is_active /\ ehr_configs'[k].is_active) =>
              \E s \in saving \ saving' :
                  /\ s.config_data.doctor_id = ehr_configs[k].doctor_id
                  /\ s.config_data.provider = ehr_configs[k].provider

\* C23: a delete leaves the row stored with is_active false; from then on, until a
\* save for the pair completes, neither getter returns it and a submit for the
\* provider is refused for lack of a configuration.
C23_SoftDeleteHidesUntilSavedAgain ==
    [][/\ SoftDeleteKeepsRowHidden
       /\ \A slot \in Slots :
             LET r == submitting[slot]
             IN  (r.pc = "config" /\ submitting'[slot] # r
                    /\ DeletedConfigsOf(r.doctor, r.provider) # {}) =>
                     Refuses(slot, {400})
      ]_vars

C23_GettersPart == [][SoftDeleteKeepsRowHidden]_vars

\* An active row with this id owned by this doctor is stored.
HasActiveConfig(d, config_id) ==
    \E c \in Range(ehr_configs) : c.id = config_id /\ c.doctor_id = d /\ c.is_active

\* C24: delete(doctor_id, config_id) reports success exactly when an active row with
\* that id owned by that doctor was stored before the call; for an unknown id,
\* another doctor's row and an already inactive row it reports failure and
\* changes nothing.
C24_DeleteTrueIffActiveRow ==
    [][\A d \in Doctors, id \in 1..MaxConfigSaves :
          delete_ehr_configuration(d, id) =>
              /\ (last'.code = 200) <=> HasActiveConfig(d, id)
              /\ ~HasActiveConfig(d, id) =>
                    /\ last'.code = 404
                    /\ ehr_configs' = ehr_configs
      ]_vars

(***************************************************************************)
(* The identifiers and the content of the bundle submit builds.            *)
(***************************************************************************)
\* The ids a bundle carries: its own and those of its resources.
IdsOf(bundle) == <<bundle.id>> \o [k \in 1..Len(bundle.entry) |-> bundle.entry[k].resource.id]

\* The ids assigned inside this system before the run.
InternalIds ==
    {ToString(x.id) : x \in Range(prescriptions)}
        \cup {ToString(c.id) : c \in Range(ehr_configs)}
        \cup {ToString(r.id) : r \in Range(ehr_submissions)}

\* C25: the bundle submit builds exists, the bundle and every resource in it carry
\* a non-null id, the ids are pairwise distinct, none is an id this system had
\* assigned to an internal entity, and a later run for the same prescription
\* shares no id with it.
C25_BundleIdsFreshAndDistinct ==
    last.op = "client_bundle" =>
        /\ last.body # <<>>
        /\ \A bundle \in Range(last.body) :
              /\ \A k \in 1..Len(IdsOf(bundle)) : IdsOf(bundle)[k] # Null
              /\ \A j, k \in 1..Len(IdsOf(bundle)) :
                    j # k => IdsOf(bundle)[j] # IdsOf(bundle)[k]
              /\ Range(IdsOf(bundle)) \cap InternalIds = {}
              /\ \A later \in Range(SubmittedBundle(get_prescription_by_id(last.arg)[1],
                                                     last.code + Len(bundle.entry), now)) :
                    Range(IdsOf(later)) \cap Range(IdsOf(bundle)) \subseteq {Null}

\* C26: with the clock and the assigned ids held fixed, a run of submit builds a
\* bundle, and building again from the same prescription gives the same bundle:
\* the same entries in the same order with the same content.
C26_SameInputsSameBundle ==
    last.op = "client_bundle" =>
        LET again == SubmittedBundle(get_prescription_by_id(last.arg)[1], last.code, now)
        IN  /\ last.body # <<>>
            /\ again # <<>>
            /\ again = last.body

\* The frequency the rule of the specification gives for a frequency text.
InferredFrequency(text) ==
    CASE text \in {"twice daily", "BID", "twice or three times daily"} -> 2
      [] text \in {"Three times daily", "TID"} -> 3
      [] text \in {"four times a day (qid)"} -> 4
      [] OTHER -> 1

\* C27: the MedicationRequest built for a medication exists and its timing
\* frequency is 2 for a text containing 'twice' or 'bid', otherwise 3 for 'three'
\* or 'tid', otherwise 4 for 'four' or 'qid', otherwise 1, case ignored.
C27_FrequencyInferredFromText ==
    last.op = "client_medication_request" =>
        LET medication == get_prescription_by_id(last.arg)[1].medications[last.code]
            built == last.body[1]
        IN  /\ ~built.raised
            /\ Len(built.entry) = 1
            /\ \A k \in 1..Len(built.entry) :
                  built.entry[k].frequency = InferredFrequency(medication.frequency)

(***************************************************************************)
(* Authentication: HTTPBearer, AuthHandler.decode_token and the            *)
(* dependencies get_current_user_id and get_current_user in front of the   *)
(* EHR and the patient-management endpoints.                               *)
(***************************************************************************)
\* What a request carries in its Authorization header: no header, another
\* scheme, or a bearer token that is not a JWT of this server, has expired, is
\* not of type access, or is an access token of a doctor.
Credential(header, token, sub) == [header |-> header, token |-> token, sub |-> sub]

Credentials ==
    {Credential("none", "", ""), Credential("basic", "", ""),
     Credential("bearer", "garbage", ""), Credential("bearer", "expired", "A"),
     Credential("bearer", "refresh", "A")}
        \cup {Credential("bearer", "access", d) : d \in Doctors}

ValidCredential(c) == c.header = "bearer" /\ c.token = "access"

\* The outcome of a dependency: status 0 and the user id, or the error response.
Authenticated(user) == [status |-> 0, detail |-> "", user |-> user]

AuthError(status, detail) == [status |-> status, detail |-> detail, user |-> "none"]

\* The statuses HTTPBearer answers with when no bearer credential is sent.
NotAuthenticatedCodes == {401, 403}

\* AuthHandler.decode_token
decode_token(c) ==
    CASE c.token = "expired" -> AuthError(401, "Token has expired")
      [] c.token = "refresh" -> AuthError(401, "Invalid token type")
      [] c.token = "access" -> Authenticated(c.sub)
      [] OTHER -> AuthError(401, "Invalid token")

\* get_current_user_id behind HTTPBearer, which answers with `code` when the
\* header is missing or of another scheme.
get_current_user_id(c, code) ==
    IF c.header # "bearer" THEN AuthError(code, "Not authenticated")
    ELSE decode_token(c)

\* get_current_user behind HTTPBearer: its first statement, the relative import
\* `from .database import user_db`, raises ImportError because server.py imports
\* auth as a top-level module; the general exception handler answers 500.
get_current_user(c, code) ==
    IF c.header # "bearer" THEN AuthError(code, "Not authenticated")
    ELSE AuthError(500, "Internal server error")

\* The response to a request its dependency refused: the handler does not run.
Refused401(op, auth) ==
    /\ last' = Response(op, auth.user, 0, auth.status, auth.detail, <<>>)
    /\ UNCHANGED <<now, next_id, prescriptions, ehr_configs, ehr_submissions, ehr_tests,
                   tests_saved, saving, submitting, updating, patient_storage,
                   ehr_service>>

\* GET /api/ehr/providers
api_ehr_providers(c, code) ==
    LET auth == get_current_user(c, code)
    IN  IF auth.status # 0 THEN Refused401("providers", auth)
        ELSE /\ last' = Response("providers", auth.user, 0, 200,
                                  "EHR providers retrieved successfully", <<>>)
             /\ UNCHANGED <<now, next_id, prescriptions, ehr_configs, ehr_submissions,
                            ehr_tests, tests_saved, saving, submitting, updating,
                            patient_storage, ehr_service>>

\* GET /api/ehr/configurations
api_ehr_configurations(c, code) ==
    LET auth == get_current_user_id(c, code)
    IN  IF auth.status # 0 THEN Refused401("configurations", auth)
        ELSE /\ last' = Response("configurations", auth.user, 0, 200,
                                  "EHR configurations retrieved successfully",
                                  get_ehr_configurations(auth.user))
             /\ UNCHANGED <<now, next_id, prescriptions, ehr_configs, ehr_submissions,
                            ehr_tests, tests_saved, saving, submitting, updating,
                            patient_storage, ehr_service>>

\* POST /api/ehr/configure up to the await of find_one.
api_ehr_configure(c, code, p, url) ==
    LET auth == get_current_user_id(c, code)
    IN  IF auth.status # 0 THEN Refused401("configure", auth)
        ELSE save_ehr_configuration_find(auth.user, p, url)

\* POST /api/ehr/test-connection
api_ehr_test_connection(c, code, p, remote) ==
    LET auth == get_current_user_id(c, code)
    IN  IF auth.status # 0 THEN Refused401("test_connection", auth)
        ELSE test_ehr_connection(auth.user, p, remote)

\* PatientStorageDB.create_patient and create_visit: the patient document, its
\* first visit, and the patient's last_updated set to the time of the visit.
create_patient(d) ==
    [patients |->
        Append(patient_storage.patients,
               [mrn |-> next_id, created_by_doctor_id |-> d, created_date |-> now,
                last_updated |-> now + 1, is_active |-> TRUE]),
     visits |->
        Append(patient_storage.visits,
               [visit_code |-> next_id + 1, patient_mrn |-> next_id, doctor_id |-> d,
                visit_date |-> now + 1, visit_type |-> "initial_consultation",
                is_active |-> TRUE])]

\* POST /api/patients/create-new
api_patients_create_new(c, code) ==
    LET auth == get_current_user_id(c, code)
    IN  IF auth.status # 0 THEN Refused401("create_new_patient", auth)
        ELSE /\ Len(patient_storage.patients) < MaxPatients
             /\ patient_storage' = create_patient(auth.user)
             /\ now' = now + 2
             /\ next_id' = next_id + 2
             /\ last' = Response("create_new_patient", auth.user, next_id, 200,
                                  "New patient created successfully", <<>>)
             /\ UNCHANGED <<prescriptions, ehr_configs, ehr_submissions, ehr_tests,
                            tests_saved, saving, submitting, updating, ehr_service>>

\* The requests of doctors and of callers without a valid credential.
NextAuth ==
    \/ \E c \in Credentials, code \in NotAuthenticatedCodes : api_ehr_providers(c, code)
    \/ \E c \in Credentials, code \in NotAuthenticatedCodes : api_ehr_configurations(c, code)
    \/ \E c \in Credentials, code \in NotAuthenticatedCodes :
          api_ehr_configure(c, code, "Epic", "https://fhir.one/")
    \/ \E s \in saving : save_ehr_configuration_write(s)
    \/ /\ TotalTestsSaved < MaxProbes
       /\ \E c \in Credentials, code \in NotAuthenticatedCodes :
             api_ehr_test_connection(c, code, "Epic", Refused)
    \/ \E c \in Credentials, code \in NotAuthenticatedCodes : api_patients_create_new(c, code)

SpecAuth == Init /\ [][NextAuth]_vars

\* The stored configurations, connection tests, submissions and patient
\* records are left as they are.
StoresUnchanged ==
    UNCHANGED <<ehr_configs, ehr_tests, ehr_submissions, patient_storage, prescriptions,
                saving>>

\* C28: a request to an EHR endpoint or a patient-management endpoint that carries
\* no valid bearer credential is answered with 401 or 403 and changes no stored
\* configuration, connection test, submission or patient record.
C28_NoCredentialRejected ==
    [][\A c \in Credentials, code \in NotAuthenticatedCodes :
          ~ValidCredential(c) =>
              /\ (\/ api_ehr_providers(c, code)
                  \/ api_ehr_configurations(c, code)
                  \/ api_ehr_configure(c, code, "Epic", "https://fhir.one/")
                  \/ api_ehr_test_connection(c, code, "Epic", Refused)
                  \/ api_patients_create_new(c, code)) =>
                     /\ last'.code \in {401, 403}
                     /\ StoresUnchanged
      ]_vars

(***************************************************************************)
(* The HTTP session of an EHRIntegrationService: __init__, __aenter__,     *)
(* __aexit__ and the operations, used as the handlers use the client, in   *)
(* `async with EHRIntegrationService() as ehr_service:`.                   *)
(***************************************************************************)
\* self.session = None
NoSession == 0

\* aiohttp.ClientSession(): a new open session, owned by client k.
ClientSession(k) == [owner |-> k, closed |-> FALSE]

\* __init__ then __aenter__: the client enters its scope holding a new session.
EHRIntegrationService_aenter ==
    /\ Len(ehr_service.clients) < MaxClients
    /\ ehr_service' =
          [clients |-> Append(ehr_service.clients,
                              [session |-> Len(ehr_service.sessions) + 1,
                               scope |-> "inside", exit |-> "none"]),
           sessions |-> Append(ehr_service.sessions,
                               ClientSession(Len(ehr_service.clients) + 1))]
    /\ UNCHANGED <<now, next_id, prescriptions, ehr_configs, ehr_submissions, ehr_tests,
                   tests_saved, saving, submitting, updating, last, patient_storage>>

\* `if not self.session: self.session = aiohttp.ClientSession()` at the head of
\* an operation of client k.
EnsureSession(k) ==
    IF ehr_service.clients[k].session = NoSession
    THEN [clients |-> [ehr_service.clients EXCEPT
                          ![k].session = Len(ehr_service.sessions) + 1],
          sessions |-> Append(ehr_service.sessions, ClientSession(k))]
    ELSE ehr_service

\* __aexit__ closing the session only when the body did not raise.
Closed_UnlessRaised(sessions, client, raised) ==
    IF client.session # NoSession /\ ~raised
    THEN [sessions EXCEPT ![client.session].closed = TRUE]
    ELSE sessions

\* `if self.session: await self.session.close()`
Closed(sessions, client, raised) ==
    IF client.session # NoSession
    THEN [sessions EXCEPT ![client.session].closed = TRUE]
    ELSE sessions

\* test_ehr_connection or submit_prescription_to_ehr on client k, inside its
\* scope or after it: the session is opened if there is none, the request is
\* made on it; a closed session raises RuntimeError, which the operation
\* catches like every exception and returns as an error result.
EHRIntegrationService_operation(k, outcome) ==
    /\ k \in 1..Len(ehr_service.clients)
    /\ ehr_service' = EnsureSession(k)
    /\ last' = Response("client_operation", "none", k, 0,
                         IF ehr_service'.sessions[ehr_service'.clients[k].session].closed
                         THEN "Session is closed" ELSE outcome,
                         <<>>)
    /\ UNCHANGED <<now, next_id, prescriptions, ehr_configs, ehr_submissions, ehr_tests,
                   tests_saved, saving, submitting, updating, patient_storage>>

\* __aexit__ when the body of the scope returned or raised.
EHRIntegrationService_aexit(k, raised) ==
    /\ k \in 1..Len(ehr_service.clients)
    /\ ehr_service.clients[k].scope = "inside"
    /\ ehr_service' =
          [clients |-> [ehr_service.clients EXCEPT
                           ![k].scope = "exited",
                           ![k].exit = IF raised THEN "raised" ELSE "returned"],
           sessions |-> Closed(ehr_service.sessions, ehr_service.clients[k], raised)]
    /\ UNCHANGED <<now, next_id, prescriptions, ehr_configs, ehr_submissions, ehr_tests,
                   tests_saved, saving, submitting, updating, last, patient_storage>>

\* What an operation returns: a success result or an error result.
OperationOutcomes == {"success", "error"}

NextClient ==
    \/ EHRIntegrationService_aenter
    \/ \E k \in 1..MaxClients, outcome \in OperationOutcomes :
          EHRIntegrationService_operation(k, outcome)
    \/ \E k \in 1..MaxClients, raised \in BOOLEAN : EHRIntegrationService_aexit(k, raised)

SpecClient == Init /\ [][NextClient]_vars

\* The sessions client k opened, and those of them still open.
SessionsOf(k) == {i \in 1..Len(ehr_service.sessions) : ehr_service.sessions[i].owner = k}

OpenSessionsOf(k) == {i \in SessionsOf(k) : ~ehr_service.sessions[i].closed}

C30_CompletedAtIffEverTerminal ==
    /\ [](\A row \in Range(ehr_submissions) :
             row.status \in {"success", "failed"} => row.completed_at # NoTime)
    /\ [][\A i \in 1..Len(ehr_submissions') :
             IF i > Len(ehr_submissions)
             THEN /\ ehr_submissions'[i].completed_at = NoTime
                  /\ ehr_submissions'[i].status \notin {"success", "failed"}
             ELSE (ehr_submissions[i].completed_at = NoTime
                     /\ ehr_submissions'[i].completed_at # NoTime) =>
                      ehr_submissions'[i].status \in {"success", "failed"}
      ]_vars

\* A row completed after a retry, and then moved on to another retry that is
\* between its $inc and its $set: the status is still terminal, completed_at
\* is kept.
C30_Witness ==
    \E row \in Range(ehr_submissions) :
        /\ row.status \in {"success", "failed"}
        /\ row.completed_at # NoTime
        /\ row.retry_count = MaxRetryCount
        /\ \E call \in updating : call.submission_id = row.id
====
